---- MODULE Spec2Model ----
(***************************************************************************)
(* pvcreek: decoding of Wikimedia pageviews lines (parse.py) and the       *)
(* sifting of the decoded records (sift.py).                               *)
(*                                                                         *)
(* A Python str is modelled as a sequence of one-character strings, so     *)
(* that splitting, prefix matching and integer conversion are computed on  *)
(* the characters.  A Python value that may be None, and the outcome of a  *)
(* call that may raise, are records with a tag field.                      *)
(***************************************************************************)
EXTENDS Integers, Sequences, FiniteSets, TLC

VARIABLES
    segments,     \* the dot-separated segments the domain code is written from
    domain_code,  \* parse_domain_code: its argument
    decoded,      \* parse_domain_code: what the call returned or raised
    fields,       \* the tokens the line is written from
    line,         \* parse_line: its argument
    parsed,       \* parse_line: what the call returned or raised
    lines,        \* parse: the stream it iterates over
    consumed,     \* parse: number of lines taken from the stream so far
    gen,          \* parse: where the generator stands
    held,         \* parse: the line bound by the for loop
    yielded,      \* parse: the records handed to the consumer so far
    outcome,      \* parse: what the consumer's last next() got
    stream,       \* sift: the records it iterates over
    criteria,     \* sift: its seven keyword arguments
    sift_pos,     \* sift: number of records taken from the stream so far
    sift_out,     \* sift: the records handed to the consumer so far
    criteria_b,   \* a second sift: its seven keyword arguments
    once,         \* list(sift(stream, criteria))
    twice,        \* list(sift(once, criteria_b))
    merged,       \* list(sift(stream, criteria and criteria_b together))
    sift_gen,     \* sift over parse: where the generator sift stands
    got,          \* sift over parse: what the consumer's last next() got
    pre,          \* pre_filter: the predicates its caller supplied
    passed,       \* pre_filter: the lines it has yielded, in order
    files,        \* the file system: the files that exist, each complete or partial
    made,         \* the file system: the directories mkdir has made
    fetches,      \* the number of requests.get calls made so far
    call,         \* the last call of stream.py or pvcreek: arguments and result
    attempted,    \* history: the files a download was asked for
    completed     \* history: the files a download has returned the path of

decodeVars == <<segments, domain_code, decoded>>
lineVars == <<fields, line, parsed>>
parseVars == <<lines, consumed, gen, held, yielded, outcome>>
siftVars == <<stream, criteria, sift_pos, sift_out>>
twiceVars == <<criteria_b, once, twice, merged>>
pipeVars == <<sift_gen, got>>
preVars == <<pre, passed>>
cacheVars == <<files, made, fetches, call, attempted, completed>>
vars == <<segments, domain_code, decoded, fields, line, parsed, lines, consumed,
          gen, held, yielded, outcome, stream, criteria, sift_pos, sift_out,
          criteria_b, once, twice, merged,
          sift_gen, got,
          pre, passed,
          files, made, fetches, call, attempted, completed>>

----------------------------------------------------------------------------
(* Bounds *)

\* Largest number of dot-separated segments of a domain code.
MaxSegments == 4

\* Largest number of whitespace-separated tokens of a line.
MaxFields == 5

\* Largest number of lines in the stream given to parse.
MaxLines == 3

\* Largest number of records in the stream given to sift.
MaxStream == 2

----------------------------------------------------------------------------
(* parse.py: the tables *)

DOMAINS ==
    (<<>> :> <<"w", "i", "k", "i", "p", "e", "d", "i", "a", ".", "o", "r", "g">>)
    @@ (<<"b">> :> <<"w", "i", "k", "i", "b", "o", "o", "k", "s", ".", "o", "r", "g">>)
    @@ (<<"d">> :> <<"w", "i", "k", "t", "i", "o", "n", "a", "r", "y", ".", "o", "r", "g">>)
    @@ (<<"f">> :> <<"w", "i", "k", "i", "m", "e", "d", "i", "a", "f", "o", "u", "n", "d", "a", "t", "i", "o", "n", ".", "o", "r", "g">>)
    @@ (<<"m">> :> <<"w", "i", "k", "i", "m", "e", "d", "i", "a", ".", "o", "r", "g">>)
    @@ (<<"n">> :> <<"w", "i", "k", "i", "n", "e", "w", "s", ".", "o", "r", "g">>)
    @@ (<<"q">> :> <<"w", "i", "k", "i", "q", "u", "o", "t", "e", ".", "o", "r", "g">>)
    @@ (<<"s">> :> <<"w", "i", "k", "i", "s", "o", "u", "r", "c", "e", ".", "o", "r", "g">>)
    @@ (<<"v">> :> <<"w", "i", "k", "i", "v", "e", "r", "s", "i", "t", "y", ".", "o", "r", "g">>)
    @@ (<<"v", "o", "y">> :> <<"w", "i", "k", "i", "v", "o", "y", "a", "g", "e", ".", "o", "r", "g">>)
    @@ (<<"w">> :> <<"m", "e", "d", "i", "a", "w", "i", "k", "i", ".", "o", "r", "g">>)
    @@ (<<"w", "d">> :> <<"w", "i", "k", "i", "d", "a", "t", "a", ".", "o", "r", "g">>)

WIKIMEDIA_SUB_DOMAINS ==
    (<<"c", "o", "m", "m", "o", "n", "s">> :> <<"c", "o", "m", "m", "o", "n", "s", ".", "w", "i", "k", "i", "m", "e", "d", "i", "a", ".", "o", "r", "g">>)
    @@ (<<"m", "e", "t", "a">> :> <<"m", "e", "t", "a", ".", "w", "i", "k", "i", "m", "e", "d", "i", "a", ".", "o", "r", "g">>)
    @@ (<<"i", "n", "c", "u", "b", "a", "t", "o", "r">> :> <<"i", "n", "c", "u", "b", "a", "t", "o", "r", ".", "w", "i", "k", "i", "m", "e", "d", "i", "a", ".", "o", "r", "g">>)
    @@ (<<"s", "p", "e", "c", "i", "e", "s">> :> <<"s", "p", "e", "c", "i", "e", "s", ".", "w", "i", "k", "i", "m", "e", "d", "i", "a", ".", "o", "r", "g">>)
    @@ (<<"s", "t", "r", "a", "t", "e", "g", "y">> :> <<"s", "t", "r", "a", "t", "e", "g", "y", ".", "w", "i", "k", "i", "m", "e", "d", "i", "a", ".", "o", "r", "g">>)
    @@ (<<"o", "u", "t", "r", "e", "a", "c", "h">> :> <<"o", "u", "t", "r", "e", "a", "c", "h", ".", "w", "i", "k", "i", "m", "e", "d", "i", "a", ".", "o", "r", "g">>)
    @@ (<<"u", "s", "a", "b", "i", "l", "i", "t", "y">> :> <<"u", "s", "a", "b", "i", "l", "i", "t", "y", ".", "w", "i", "k", "i", "m", "e", "d", "i", "a", ".", "o", "r", "g">>)
    @@ (<<"q", "u", "a", "l", "i", "t", "y">> :> <<"q", "u", "a", "l", "i", "t", "y", ".", "w", "i", "k", "i", "m", "e", "d", "i", "a", ".", "o", "r", "g">>)

\* String literals of parse_domain_code
WIKIPEDIA_ORG == <<"w", "i", "k", "i", "p", "e", "d", "i", "a", ".", "o", "r", "g">>
EN == <<"e", "n">>
M == <<"m">>
ZERO == <<"z", "e", "r", "o">>
DOT == <<".">>

\* dict.get(key, default)
DictGet(d, key, default) == IF key \in DOMAIN d THEN d[key] ELSE default

\* str.split(sep) for a one-character separator: always at least one part.
RECURSIVE str_split(_, _)
str_split(s, sep) ==
    IF \A i \in 1..Len(s) : s[i] # sep
    THEN <<s>>
    ELSE LET i == CHOOSE k \in 1..Len(s) :
                      s[k] = sep /\ \A j \in 1..(k - 1) : s[j] # sep
         IN  <<SubSeq(s, 1, i - 1)>> \o str_split(SubSeq(s, i + 1, Len(s)), sep)

\* sep.join(parts)
RECURSIVE str_join(_, _)
str_join(parts, sep) ==
    IF Len(parts) = 0 THEN <<>>
    ELSE IF Len(parts) = 1 THEN parts[1]
    ELSE parts[1] \o sep \o str_join(Tail(parts), sep)

----------------------------------------------------------------------------
(* parse.py: parse_domain_code *)

Pending == [status |-> "pending"]

\* return (language, domain, mobile)
Returned(language, domain, mobile) ==
    [status |-> "returned", language |-> language, project |-> domain,
     mobile |-> mobile]

\* raise ValueError(...)
Raise(exc, origin) == [status |-> "raised", exc |-> exc, origin |-> origin]

\* len(parts) == 1
one_part(parts) == Returned(parts[1], WIKIPEDIA_ORG, FALSE)

\* sub_domain without `language = "en"`.
sub_domain_keeps_language(parts) ==
    Returned(parts[1], WIKIMEDIA_SUB_DOMAINS[parts[1]], Len(parts) = 3)

\* language in WIKIMEDIA_SUB_DOMAINS
sub_domain(parts) ==
    Returned(EN, WIKIMEDIA_SUB_DOMAINS[parts[1]], Len(parts) = 3)

\* two_parts looking the mobile marker up in DOMAINS like any other suffix.
two_parts_suffix_first(parts) ==
    Returned(parts[1], DictGet(DOMAINS, parts[2], parts[2]), parts[2] \in {M, ZERO})

\* len(parts) == 2
two_parts(parts) ==
    LET mobile == parts[2] \in {M, ZERO}
    IN  Returned(parts[1],
                 IF mobile THEN WIKIPEDIA_ORG ELSE DictGet(DOMAINS, parts[2], parts[2]),
                 mobile)

\* three_parts resolving the second segment instead of the third.
three_parts_second(parts) == Returned(parts[1], DictGet(DOMAINS, parts[2], parts[2]), TRUE)

\* len(parts) == 3
three_parts(parts) == Returned(parts[1], DictGet(DOMAINS, parts[3], parts[3]), TRUE)

\* parse_domain_code without the branch for three parts.
parse_domain_code_two_at_most(code) ==
    LET parts == str_split(code, ".")
        language == parts[1]
    IN  IF Len(parts) = 1 THEN one_part(parts)
        ELSE IF language \in DOMAIN WIKIMEDIA_SUB_DOMAINS THEN sub_domain(parts)
        ELSE IF Len(parts) = 2 THEN two_parts(parts)
        ELSE Raise("ValueError", "parse_domain_code")

parse_domain_code(code) ==
    LET parts == str_split(code, ".")
        language == parts[1]
    IN  IF Len(parts) = 1 THEN one_part(parts)
        ELSE IF language \in DOMAIN WIKIMEDIA_SUB_DOMAINS THEN sub_domain(parts)
        ELSE IF Len(parts) = 2 THEN two_parts(parts)
        ELSE IF Len(parts) = 3 THEN three_parts(parts)
        ELSE Raise("ValueError", "parse_domain_code")

----------------------------------------------------------------------------
(* parse.py: parse_line *)

\* The characters str.split() splits on, among those the lines are written in.
Whitespace == {" ", "\t", "\n", "\r"}

\* str.split(): the maximal runs of non-whitespace characters.
RECURSIVE str_split_whitespace(_)
str_split_whitespace(s) ==
    IF s = <<>> THEN <<>>
    ELSE IF s[1] \in Whitespace THEN str_split_whitespace(Tail(s))
    ELSE LET n == CHOOSE k \in 1..Len(s) :
                      /\ \A j \in 1..k : s[j] \notin Whitespace
                      /\ k = Len(s) \/ s[k + 1] \in Whitespace
         IN  <<SubSeq(s, 1, n)>> \o str_split_whitespace(SubSeq(s, n + 1, Len(s)))

DigitValue ==
    ("0" :> 0) @@ ("1" :> 1) @@ ("2" :> 2) @@ ("3" :> 3) @@ ("4" :> 4)
    @@ ("5" :> 5) @@ ("6" :> 6) @@ ("7" :> 7) @@ ("8" :> 8) @@ ("9" :> 9)

\* The digits of an int literal after its sign: digits, with single
\* underscores allowed between two digits.
int_digits_ok(body) ==
    /\ body # <<>>
    /\ \A i \in 1..Len(body) : body[i] \in (DOMAIN DigitValue) \cup {"_"}
    /\ body[1] # "_"
    /\ body[Len(body)] # "_"
    /\ \A i \in 1..(Len(body) - 1) : ~(body[i] = "_" /\ body[i + 1] = "_")

RECURSIVE int_digits_value(_, _)
int_digits_value(body, acc) ==
    IF body = <<>> THEN acc
    ELSE IF body[1] = "_" THEN int_digits_value(Tail(body), acc)
    ELSE int_digits_value(Tail(body), 10 * acc + DigitValue[body[1]])

\* int(s) for a str without whitespace: the value, or ValueError.
int(s) ==
    LET signed == s # <<>> /\ s[1] \in {"+", "-"}
        body == IF signed THEN Tail(s) ELSE s
    IN  IF ~int_digits_ok(body) THEN Raise("ValueError", "int")
        ELSE [status |-> "returned",
              value |-> IF signed /\ s[1] = "-"
                        THEN 0 - int_digits_value(body, 0)
                        ELSE int_digits_value(body, 0)]

\* The dataclass Pageviews.
Pageviews(dc, title, views, language, project, mobile) ==
    [domain_code |-> dc, page_title |-> title, count_views |-> views,
     language |-> language, project |-> project, mobile |-> mobile]

ReturnedPageviews(pv) == [status |-> "returned", pageviews |-> pv]

\* parse_line converting the count before it decodes the domain code.
parse_line_count_first(l) ==
    LET tokens == str_split_whitespace(l)
    IN  IF Len(tokens) # 4 THEN Raise("ValueError", "unpack")
        ELSE LET count == int(tokens[3])
                 code == parse_domain_code(tokens[1])
             IN  IF count.status = "raised" THEN count
                 ELSE IF code.status = "raised" THEN code
                 ELSE ReturnedPageviews(
                          Pageviews(tokens[1], tokens[2], count.value,
                                    code.language, code.project, code.mobile))

\* parse_line taking the count from the fourth column.
parse_line_counts_bytes(l) ==
    LET tokens == str_split_whitespace(l)
    IN  IF Len(tokens) # 4 THEN Raise("ValueError", "unpack")
        ELSE LET code == parse_domain_code(tokens[1])
                 count == int(tokens[4])
             IN  IF code.status = "raised" THEN code
                 ELSE IF count.status = "raised" THEN count
                 ELSE ReturnedPageviews(
                          Pageviews(tokens[1], tokens[2], count.value,
                                    code.language, code.project, code.mobile))

\* The unpacking of line.split() into four names raises unless there are
\* four tokens; then the domain code is decoded; then, in the constructor
\* call, the count is converted.
parse_line(l) ==
    LET tokens == str_split_whitespace(l)
    IN  IF Len(tokens) # 4 THEN Raise("ValueError", "unpack")
        ELSE LET code == parse_domain_code(tokens[1])
                 count == int(tokens[3])
             IN  IF code.status = "raised" THEN code
                 ELSE IF count.status = "raised" THEN count
                 ELSE ReturnedPageviews(
                          Pageviews(tokens[1], tokens[2], count.value,
                                    code.language, code.project, code.mobile))

----------------------------------------------------------------------------
(* sift.py *)

\* An argument left at its default, a str, a compiled pattern, an int, a bool.
None == [kind |-> "None"]
Str(s) == [kind |-> "str", value |-> s]
Pattern(p) == [kind |-> "re.Pattern", pattern |-> p]
Integer(n) == [kind |-> "int", value |-> n]
Bool(b) == [kind |-> "bool", value |-> b]

\* sift called with the stream alone.
NoCriteria ==
    [domain_code |-> None, page_title |-> None, min_views |-> None,
     max_views |-> None, language |-> None, project |-> None, mobile |-> None]

\* re.Pattern.match(target), for a pattern of literal characters and ".":
\* the pattern has to match from the first character of target on, and may
\* end before target does.
re_match(pattern, target) ==
    /\ Len(pattern) <= Len(target)
    /\ \A i \in 1..Len(pattern) :
           \/ pattern[i] = target[i]
           \/ pattern[i] = "." /\ target[i] # "\n"

\* re.Pattern.search(target): a match starting anywhere in target.
re_search(pattern, target) ==
    \E k \in 0..Len(target) : re_match(pattern, SubSeq(target, k + 1, Len(target)))

\* compare_str calling search where the code calls match.
compare_str_search(filter_value, target) ==
    IF filter_value.kind = "re.Pattern"
    THEN re_search(filter_value.pattern, target)
    ELSE filter_value.value = target

compare_str(filter_value, target) ==
    IF filter_value.kind = "re.Pattern"
    THEN re_match(filter_value.pattern, target)
    ELSE filter_value.value = target

\* compare_int with the upper bound excluded.
compare_int_below_max(filter_min, filter_max, target) ==
    IF filter_min.kind # "None" /\ target < filter_min.value THEN FALSE
    ELSE IF filter_max.kind # "None" /\ target >= filter_max.value THEN FALSE
    ELSE TRUE

compare_int(filter_min, filter_max, target) ==
    IF filter_min.kind # "None" /\ target < filter_min.value THEN FALSE
    ELSE IF filter_max.kind # "None" /\ target > filter_max.value THEN FALSE
    ELSE TRUE

compare_bool(value, target) == value.value = target

\* bool(x) of an argument: None, 0, "" and False are false.
Truthy(x) ==
    CASE x.kind = "None" -> FALSE
      [] x.kind = "str" -> x.value # <<>>
      [] x.kind = "int" -> x.value # 0
      [] x.kind = "bool" -> x.value
      [] OTHER -> TRUE

\* The comparators of a sift that tests `if x:` where sift tests
\* `if x is not None:`.
comparators_if_truthy(c) ==
    (IF Truthy(c.domain_code) THEN <<"domain_code">> ELSE <<>>)
    \o (IF Truthy(c.page_title) THEN <<"page_title">> ELSE <<>>)
    \o (IF Truthy(c.min_views) \/ Truthy(c.max_views)
        THEN <<"views">> ELSE <<>>)
    \o (IF Truthy(c.language) THEN <<"language">> ELSE <<>>)
    \o (IF Truthy(c.project) THEN <<"project">> ELSE <<>>)
    \o (IF Truthy(c.mobile) THEN <<"mobile">> ELSE <<>>)

\* The list comparators as sift appends to it, each lambda by the field it
\* compares.
comparators(c) ==
    (IF c.domain_code.kind # "None" THEN <<"domain_code">> ELSE <<>>)
    \o (IF c.page_title.kind # "None" THEN <<"page_title">> ELSE <<>>)
    \o (IF c.min_views.kind # "None" \/ c.max_views.kind # "None"
        THEN <<"views">> ELSE <<>>)
    \o (IF c.language.kind # "None" THEN <<"language">> ELSE <<>>)
    \o (IF c.project.kind # "None" THEN <<"project">> ELSE <<>>)
    \o (IF c.mobile.kind # "None" THEN <<"mobile">> ELSE <<>>)

\* The call f(pageviews) of one of the lambdas.
comparator(f, c, pv) ==
    CASE f = "domain_code" -> compare_str(c.domain_code, pv.domain_code)
      [] f = "page_title" -> compare_str(c.page_title, pv.page_title)
      [] f = "views" -> compare_int(c.min_views, c.max_views, pv.count_views)
      [] f = "language" -> compare_str(c.language, pv.language)
      [] f = "project" -> compare_str(c.project, pv.project)
      [] f = "mobile" -> compare_bool(c.mobile, pv.mobile)

\* sift_passes with any() where the code has all().
sift_passes_any(c, pv) ==
    LET fs == comparators(c)
    IN  fs = <<>> \/ \E i \in 1..Len(fs) : comparator(fs[i], c, pv)

\* not comparators or all(f(pageviews) for f in comparators)
sift_passes(c, pv) ==
    LET fs == comparators(c)
    IN  fs = <<>> \/ \A i \in 1..Len(fs) : comparator(fs[i], c, pv)

\* The for loop of sift run to the end of the stream s: the records it
\* yields, in the order it yields them.
RECURSIVE sift_loop(_, _)
sift_loop(s, c) ==
    IF s = <<>> THEN <<>>
    ELSE (IF sift_passes(c, s[1]) THEN <<s[1]>> ELSE <<>>) \o sift_loop(Tail(s), c)

\* A sift that takes the first record of the stream for a header.
sift_after_header(s, c) == IF s = <<>> THEN <<>> ELSE sift_loop(Tail(s), c)

\* list(sift(s, **c))
sift(s, c) == sift_loop(s, c)

----------------------------------------------------------------------------
(* Domain codes given to parse_domain_code *)

\* The meta-project names, as the documentation of the format lists them.
MetaProjects ==
    {<<"c", "o", "m", "m", "o", "n", "s">>,
     <<"m", "e", "t", "a">>,
     <<"i", "n", "c", "u", "b", "a", "t", "o", "r">>,
     <<"s", "p", "e", "c", "i", "e", "s">>,
     <<"s", "t", "r", "a", "t", "e", "g", "y">>,
     <<"o", "u", "t", "r", "e", "a", "c", "h">>,
     <<"u", "s", "a", "b", "i", "l", "i", "t", "y">>,
     <<"q", "u", "a", "l", "i", "t", "y">>}

\* First segments: the meta-projects, the empty segment, language tags, and
\* segments that are neither.
FirstSegments ==
    MetaProjects \cup {<<>>, EN, <<"n", "o">>, M, ZERO, <<"x">>}

\* Later segments: empty, mobile markers, a mapped suffix, unmapped ones.
RestSegments == {<<>>, M, ZERO, <<"d">>, <<"x">>, <<"c", "o", "m", "m", "o", "n", "s">>}

SegmentLists ==
    { <<f>> \o r : f \in FirstSegments,
                   r \in UNION { [1..n -> RestSegments] : n \in 0..(MaxSegments - 1) } }

----------------------------------------------------------------------------
(* The initial values of the variables an operation does not use *)

IdleDecode == /\ segments = <<>>
              /\ domain_code = <<>>
              /\ decoded = Pending

IdleLine == /\ fields = <<>>
            /\ line = <<>>
            /\ parsed = Pending

IdleParse == /\ lines = <<>>
             /\ consumed = 0
             /\ gen = "closed"
             /\ held = <<>>
             /\ yielded = <<>>
             /\ outcome = Pending

IdleSift == /\ stream = <<>>
            /\ criteria = NoCriteria
            /\ sift_pos = 0
            /\ sift_out = <<>>

IdleTwice == /\ criteria_b = NoCriteria
             /\ once = Pending
             /\ twice = Pending
             /\ merged = Pending

IdlePipe == /\ sift_gen = "closed"
            /\ got = Pending

IdlePre == /\ pre = [startswith |-> None, contains |-> None, regex |-> None,
                     custom_filter |-> None]
           /\ passed = <<>>

\* No call was made yet.
NoCall == [op |-> "none"]

IdleCache == /\ files = <<>>
             /\ made = {}
             /\ fetches = 0
             /\ call = NoCall
             /\ attempted = {}
             /\ completed = {}

----------------------------------------------------------------------------
(* Specification SpecDecode: one call of parse_domain_code *)

InitDecode ==
    /\ segments \in SegmentLists
    /\ domain_code = str_join(segments, DOT)
    /\ decoded = Pending
    /\ IdleLine /\ IdleParse /\ IdleSift /\ IdleTwice /\ IdlePipe /\ IdlePre /\ IdleCache

\* language, project, mobile = parse_domain_code(domain_code)
Decode ==
    /\ decoded = Pending
    /\ decoded' = parse_domain_code(domain_code)
    /\ UNCHANGED <<segments, domain_code, lineVars, parseVars, siftVars, twiceVars, pipeVars, preVars, cacheVars>>

NextDecode == Decode

SpecDecode == InitDecode /\ [][NextDecode]_vars

----------------------------------------------------------------------------
(* Properties of parse_domain_code, checked under SpecDecode *)

DOT_WIKIMEDIA_ORG == <<".", "w", "i", "k", "i", "m", "e", "d", "i", "a", ".", "o", "r", "g">>
WIKIMEDIA_ORG == <<"w", "i", "k", "i", "m", "e", "d", "i", "a", ".", "o", "r", "g">>
NO == <<"n", "o">>
COMMONS == <<"c", "o", "m", "m", "o", "n", "s">>

Letters ==
    {"a", "b", "c", "d", "e", "f", "g", "h", "i", "j", "k", "l", "m",
     "n", "o", "p", "q", "r", "s", "t", "u", "v", "w", "x", "y", "z"}

\* The project-suffix table entry for a suffix, or the suffix itself.
SuffixDomain(suffix) == IF suffix \in DOMAIN DOMAINS THEN DOMAINS[suffix] ELSE suffix

DecodeDone == decoded.status # "pending"

\* C2: a code of two or three segments whose first segment is a meta-project
\* name P decodes to language "en", project P.wikimedia.org, and mobile iff
\* there are exactly three segments; in particular P.m is not mobile and
\* P.m.m is mobile.
C2_MetaProject ==
    (DecodeDone /\ segments[1] \in MetaProjects /\ Len(segments) \in {2, 3})
        => decoded = Returned(EN, segments[1] \o DOT_WIKIMEDIA_ORG, Len(segments) = 3)

C2_Witness ==
    /\ DecodeDone
    /\ \E P \in MetaProjects : segments = <<P, M, M>>
    /\ decoded.language = EN
    /\ decoded.mobile

\* C3: a two-segment code L.S with L no meta-project decodes to
\* (L, wikipedia.org, mobile) when S is "m" or "zero", and otherwise to
\* (L, D, not mobile) with D the table entry for S or S itself.
C3_TwoSegments ==
    (DecodeDone /\ Len(segments) = 2 /\ segments[1] \notin MetaProjects)
        => IF segments[2] \in {M, ZERO}
           THEN decoded = Returned(segments[1], WIKIPEDIA_ORG, TRUE)
           ELSE decoded = Returned(segments[1], SuffixDomain(segments[2]), FALSE)

C3_Witness ==
    /\ DecodeDone
    /\ segments = <<NO, M>>
    /\ decoded.project = WIKIPEDIA_ORG
    /\ decoded.mobile

\* C4: a three-segment code L.X.S with L no meta-project decodes to
\* (L, D, mobile) with D the table entry for S or S itself.
C4_ThreeSegments ==
    (DecodeDone /\ Len(segments) = 3 /\ segments[1] \notin MetaProjects)
        => decoded = Returned(segments[1], SuffixDomain(segments[3]), TRUE)

C4_Witness ==
    /\ DecodeDone
    /\ segments = <<NO, M, M>>
    /\ decoded = Returned(NO, WIKIMEDIA_ORG, TRUE)

\* C5: every code of four or more segments is rejected, whatever its first
\* segment is.
C5_FourSegmentsRejected ==
    (DecodeDone /\ Len(segments) >= 4) => decoded.status = "raised"

\* A 2-3 letter language tag.
IsLanguageTag(seg) == Len(seg) \in {2, 3} /\ \A i \in 1..Len(seg) : seg[i] \in Letters

\* The grammar of the valid codes: at most 3 segments, the first one absent,
\* a language tag or a meta-project name.
InGrammar(segs) ==
    /\ Len(segs) <= 3
    /\ \/ segs[1] = <<>>
       \/ IsLanguageTag(segs[1])
       \/ segs[1] \in MetaProjects

C7_NonEmptyFields ==
    decoded.status = "returned" => (decoded.language # <<>> /\ decoded.project # <<>>)

----------------------------------------------------------------------------
(* Lines given to parse_line *)

EN_D == <<"e", "n", ".", "d">>
A_B_C_D == <<"a", ".", "b", ".", "c", ".", "d">>
TWELVE == <<"1", "2">>
MINUS_1_0 == <<"-", "1", "_", "0">>
ONE_X == <<"1", "x">>

\* A decodable code, an undecodable one, two int literals, and a token that
\* is no int literal.
LineTokens == {EN_D, A_B_C_D, TWELVE, MINUS_1_0, ONE_X}

\* The whitespace before, between and after the tokens of a line.
Layouts ==
    {[lead |-> <<>>, sep |-> <<" ">>, trail |-> <<>>],
     [lead |-> <<>>, sep |-> <<" ">>, trail |-> <<"\n">>],
     [lead |-> <<" ">>, sep |-> <<"\t", " ">>, trail |-> <<" ", "\r", "\n">>]}

TokenLists == UNION { [1..n -> LineTokens] : n \in 0..MaxFields }

----------------------------------------------------------------------------
(* Specification SpecLine: one call of parse_line *)

InitLine ==
    /\ fields \in TokenLists
    /\ \E layout \in Layouts :
           line = layout.lead \o str_join(fields, layout.sep) \o layout.trail
    /\ parsed = Pending
    /\ IdleDecode /\ IdleParse /\ IdleSift /\ IdleTwice /\ IdlePipe /\ IdlePre /\ IdleCache

\* yield parse_line(line)
ParseLine ==
    /\ parsed = Pending
    /\ parsed' = parse_line(line)
    /\ UNCHANGED <<fields, line, decodeVars, parseVars, siftVars, twiceVars, pipeVars, preVars, cacheVars>>

NextLine == ParseLine

SpecLine == InitLine /\ [][NextLine]_vars

----------------------------------------------------------------------------
(* Properties of parse_line, checked under SpecLine *)

WIKTIONARY_ORG == <<"w", "i", "k", "t", "i", "o", "n", "a", "r", "y", ".", "o", "r", "g">>

\* The int literals among the tokens, with their values.
IntegerLiterals == (TWELVE :> 12) @@ (MINUS_1_0 :> 0 - 10)

\* The codes among the tokens that the decoder accepts.
Decodable(code) == parse_domain_code(code).status = "returned"

LineDone == parsed.status # "pending"

\* C8: for a line of exactly four tokens (d, t, v, b) with d decodable and v
\* an int literal, parse_line returns the record with domain_code d,
\* page_title t, count_views the value of v, and language, project and mobile
\* as decoded from d; neither b nor the whitespace of the line enters.
C8_ParseLineRecord ==
    (/\ LineDone
     /\ Len(fields) = 4
     /\ Decodable(fields[1])
     /\ fields[3] \in DOMAIN IntegerLiterals)
        => LET code == parse_domain_code(fields[1])
           IN  parsed = ReturnedPageviews(
                            Pageviews(fields[1], fields[2], IntegerLiterals[fields[3]],
                                      code.language, code.project, code.mobile))

C8_Witness ==
    /\ LineDone
    /\ Len(fields) = 4
    /\ fields[1] = EN_D
    /\ fields[3] = TWELVE
    /\ fields[4] # TWELVE
    /\ parsed.status = "returned"
    /\ parsed.pageviews.count_views = 12
    /\ parsed.pageviews.project = WIKTIONARY_ORG

\* The errors parse_line raises itself, and the one the decoder raises.
MalformedLine(result) ==
    result.status = "raised" /\ result.exc = "ValueError"
        /\ result.origin \in {"unpack", "int"}

InvalidDomainCode(result) ==
    result.status = "raised" /\ result.exc = "ValueError"
        /\ result.origin = "parse_domain_code"

\* C9 as stated: the malformed-line error for every line that has not four
\* tokens and for every four-token line whose count is no int literal; the
\* decoder's error for every four-token line whose code the decoder rejects.
C9_ErrorPerDefect ==
    LineDone =>
        /\ Len(fields) # 4 => MalformedLine(parsed)
        /\ (Len(fields) = 4 /\ fields[3] \notin DOMAIN IntegerLiterals)
               => MalformedLine(parsed)
        /\ (Len(fields) = 4 /\ ~Decodable(fields[1])) => InvalidDomainCode(parsed)

\* C9: the malformed-line error for every line that has not four tokens, and
\* for every four-token line whose code is decodable and whose count is no
\* int literal; the decoder's error for every four-token line whose code the
\* decoder rejects, whatever its count is.  No record in any of these cases.
C9_ErrorByFirstDefect ==
    LineDone =>
        /\ Len(fields) # 4 => MalformedLine(parsed)
        /\ (Len(fields) = 4 /\ Decodable(fields[1])
                /\ fields[3] \notin DOMAIN IntegerLiterals)
               => MalformedLine(parsed)
        /\ (Len(fields) = 4 /\ ~Decodable(fields[1])) => InvalidDomainCode(parsed)

C9_Witness ==
    /\ LineDone
    /\ Len(fields) = 4
    /\ fields[1] = A_B_C_D
    /\ fields[3] = ONE_X
    /\ InvalidDomainCode(parsed)

----------------------------------------------------------------------------
(* Specification SpecParse: the generator parse, driven by its consumer *)

LINE_EN_D == <<"e", "n", ".", "d", " ", "c", "a", "t", " ", "1", " ", "0">>
LINE_KO == <<"k", "o", " ", "d", "o", "g", " ", "2", " ", "0">>
LINE_SHORT == <<"e", "n", ".", "d", " ", "c", "a", "t", " ", "1">>
LINE_BAD_CODE == <<"a", ".", "b", ".", "c", ".", "d", " ", "c", "a", "t", " ", "1", " ", "0">>
LINE_BAD_COUNT == <<"e", "n", ".", "d", " ", "c", "a", "t", " ", "x", " ", "0">>

\* Two lines that parse, and one line for each way parse_line raises.
StreamLines == {LINE_EN_D, LINE_KO, LINE_SHORT, LINE_BAD_CODE, LINE_BAD_COUNT}

StopIteration == Raise("StopIteration", "parse")

InitParse ==
    /\ lines \in UNION { [1..n -> StreamLines] : n \in 0..MaxLines }
    /\ consumed = 0
    /\ gen = "created"
    /\ held = <<>>
    /\ yielded = <<>>
    /\ outcome = Pending
    /\ IdleDecode /\ IdleLine /\ IdleSift /\ IdleTwice /\ IdlePipe /\ IdlePre /\ IdleCache

\* The consumer calls next() on the generator: the body runs up to the for
\* statement's request for the next line.
Resume ==
    /\ gen \in {"created", "suspended"}
    /\ gen' = "iterating"
    /\ outcome' = Pending
    /\ UNCHANGED <<lines, consumed, held, yielded, decodeVars, lineVars, siftVars, twiceVars, pipeVars, preVars, cacheVars>>

\* for line in stream: the stream hands over its next line.
StreamNext ==
    /\ gen = "iterating"
    /\ consumed < Len(lines)
    /\ held' = lines[consumed + 1]
    /\ consumed' = consumed + 1
    /\ gen' = "parsing"
    /\ UNCHANGED <<lines, yielded, outcome, decodeVars, lineVars, siftVars, twiceVars, pipeVars, preVars, cacheVars>>

\* for line in stream: the stream is exhausted, the generator returns.
StreamStop ==
    /\ gen = "iterating"
    /\ consumed = Len(lines)
    /\ gen' = "closed"
    /\ outcome' = StopIteration
    /\ UNCHANGED <<lines, consumed, held, yielded, decodeVars, lineVars, siftVars, twiceVars, pipeVars, preVars, cacheVars>>

\* yield parse_line(line): parse_line returned.
Yield ==
    /\ gen = "parsing"
    /\ parse_line(held).status = "returned"
    /\ yielded' = Append(yielded, parse_line(held).pageviews)
    /\ outcome' = parse_line(held)
    /\ gen' = "suspended"
    /\ UNCHANGED <<lines, consumed, held, decodeVars, lineVars, siftVars, twiceVars, pipeVars, preVars, cacheVars>>

\* A parse that goes on to the next line when parse_line raises.
RaiseOut_skips ==
    /\ gen = "parsing"
    /\ parse_line(held).status = "raised"
    /\ gen' = "iterating"
    /\ UNCHANGED <<lines, consumed, held, yielded, outcome, decodeVars, lineVars,
                   siftVars, twiceVars, pipeVars, preVars, cacheVars>>

\* yield parse_line(line): parse_line raised; nothing catches the exception,
\* which ends the generator and reaches the consumer.
RaiseOut ==
    /\ gen = "parsing"
    /\ parse_line(held).status = "raised"
    /\ gen' = "closed"
    /\ outcome' = parse_line(held)
    /\ UNCHANGED <<lines, consumed, held, yielded, decodeVars, lineVars, siftVars, twiceVars, pipeVars, preVars, cacheVars>>

\* The consumer calls next() on the ended generator.
ResumeClosed ==
    /\ gen = "closed"
    /\ outcome' = StopIteration
    /\ UNCHANGED <<lines, consumed, gen, held, yielded, decodeVars, lineVars,
                   siftVars, twiceVars, pipeVars, preVars, cacheVars>>

NextParse ==
    \/ Resume
    \/ StreamNext
    \/ StreamStop
    \/ Yield
    \/ RaiseOut
    \/ ResumeClosed

SpecParse == InitParse /\ [][NextParse]_vars

----------------------------------------------------------------------------
(* Properties of parse, checked under SpecParse *)

\* The number of lines before the first line parse_line raises on.
RECURSIVE GoodPrefix(_)
GoodPrefix(ls) ==
    IF ls = <<>> \/ parse_line(ls[1]).status = "raised" THEN 0
    ELSE 1 + GoodPrefix(Tail(ls))

\* C10: the k-th record parse yields is parse_line of the k-th line; no line
\* is passed over; when a line fails, its error reaches the consumer once
\* the records of all earlier lines were yielded, and nothing is yielded for
\* that line or any later one, then or afterwards.
C10_ParseInOrder ==
    /\ Len(yielded) <= GoodPrefix(lines)
    /\ \A k \in 1..Len(yielded) : parse_line(lines[k]) = ReturnedPageviews(yielded[k])
    /\ gen = "suspended" => (Len(yielded) = consumed /\ outcome.pageviews = yielded[consumed])
    /\ gen = "closed" =>
           /\ Len(yielded) = GoodPrefix(lines)
           /\ GoodPrefix(lines) < Len(lines) => consumed = GoodPrefix(lines) + 1
           /\ GoodPrefix(lines) = Len(lines) => consumed = Len(lines)
    /\ (outcome.status = "raised" /\ outcome.exc = "ValueError") =>
           /\ gen = "closed"
           /\ outcome = parse_line(lines[consumed])

C10_Witness ==
    /\ Len(lines) = 3
    /\ GoodPrefix(lines) = 1
    /\ parse_line(lines[3]).status = "returned"
    /\ Len(yielded) = 1
    /\ gen = "closed"
    /\ outcome = StopIteration
    /\ consumed = 2

----------------------------------------------------------------------------
(* Specification SpecSift: the generator sift over a stream of records *)

MAIN == <<"M", "a", "i", "n">>
MAIN_PAGE == <<"M", "a", "i", "n", "_", "P", "a", "g", "e">>
CAT == <<"C", "a", "t">>
EN_M == <<"e", "n", ".", "m">>
NO_M_D == <<"n", "o", ".", "m", ".", "d">>
WIK_P == <<"w", "i", "k", ".", "p">>

\* Records that differ in every field.
SiftRecords ==
    {Pageviews(EN, MAIN, 5, EN, WIKIPEDIA_ORG, FALSE),
     Pageviews(EN_M, MAIN_PAGE, 15, EN, WIKIPEDIA_ORG, TRUE),
     Pageviews(EN_D, CAT, 0, EN, WIKTIONARY_ORG, FALSE),
     Pageviews(NO_M_D, MAIN, 19, NO, WIKTIONARY_ORG, TRUE)}

\* For each argument of sift: left out, and values that hold of some of the
\* records; 0 and False among them.
SiftCriteria ==
    [domain_code : {None, Str(EN), Pattern(EN)},
     page_title : {None, Str(MAIN), Pattern(MAIN)},
     min_views : {None, Integer(0), Integer(10)},
     max_views : {None, Integer(0), Integer(19)},
     language : {None, Str(EN), Pattern(<<"n">>)},
     project : {None, Str(WIKIPEDIA_ORG), Pattern(WIK_P)},
     mobile : {None, Bool(TRUE), Bool(FALSE)}]

InitSift ==
    /\ stream \in UNION { [1..n -> SiftRecords] : n \in 0..MaxStream }
    /\ criteria \in SiftCriteria
    /\ sift_pos = 0
    /\ sift_out = <<>>
    /\ IdleDecode /\ IdleLine /\ IdleParse /\ IdleTwice /\ IdlePipe /\ IdlePre /\ IdleCache

\* for pageviews in stream: the condition holds, yield pageviews.
SiftYield ==
    /\ sift_pos < Len(stream)
    /\ sift_passes(criteria, stream[sift_pos + 1])
    /\ sift_out' = Append(sift_out, stream[sift_pos + 1])
    /\ sift_pos' = sift_pos + 1
    /\ UNCHANGED <<stream, criteria, decodeVars, lineVars, parseVars, twiceVars, pipeVars, preVars, cacheVars>>

\* for pageviews in stream: the condition fails, on to the next record.
SiftDrop ==
    /\ sift_pos < Len(stream)
    /\ ~sift_passes(criteria, stream[sift_pos + 1])
    /\ sift_pos' = sift_pos + 1
    /\ UNCHANGED <<stream, criteria, sift_out, decodeVars, lineVars, parseVars, twiceVars, pipeVars, preVars, cacheVars>>

NextSift ==
    \/ SiftYield
    \/ SiftDrop

SpecSift == InitSift /\ [][NextSift]_vars

----------------------------------------------------------------------------
(* Properties of sift, checked under SpecSift *)

\* A criterion is set when a value was supplied for it.
IsSet(x) == x.kind # "None"

\* Every set criterion holds of the record.
HoldsAllSet(c, pv) ==
    /\ IsSet(c.domain_code) => compare_str(c.domain_code, pv.domain_code)
    /\ IsSet(c.page_title) => compare_str(c.page_title, pv.page_title)
    /\ IsSet(c.min_views) => pv.count_views >= c.min_views.value
    /\ IsSet(c.max_views) => pv.count_views <= c.max_views.value
    /\ IsSet(c.language) => compare_str(c.language, pv.language)
    /\ IsSet(c.project) => compare_str(c.project, pv.project)
    /\ IsSet(c.mobile) => pv.mobile = c.mobile.value

\* C1: what sift has yielded once it has taken n records from the stream is
\* the subsequence, in order, of those n records of which every set
\* criterion holds (mobile=False and min_views=0 count as set); with no
\* criterion set it is those n records themselves.
C1_SiftSubsequence ==
    /\ sift_out = SelectSeq(SubSeq(stream, 1, sift_pos),
                            LAMBDA pv : HoldsAllSet(criteria, pv))
    /\ criteria = NoCriteria => sift_out = SubSeq(stream, 1, sift_pos)

C1_Witness ==
    /\ sift_pos = Len(stream)
    /\ Len(stream) = 2
    /\ criteria.mobile = Bool(FALSE)
    /\ criteria.min_views = Integer(0)
    /\ criteria.domain_code = None
    /\ Len(sift_out) = 1
    /\ sift_out[1] = stream[2]

\* The criteria with one argument supplied and all others left out.
OnlySet(c, name) == IsSet(c[name]) /\ c = [NoCriteria EXCEPT ![name] = c[name]]

\* The pattern matches the characters of field that follow the first
\* `start` ones.
MatchesAt(pattern, field, start) ==
    /\ start + Len(pattern) <= Len(field)
    /\ \A i \in 1..Len(pattern) :
           \/ pattern[i] = field[start + i]
           \/ pattern[i] = "." /\ field[start + i] # "\n"

\* A plain string holds of the field equal to it; a pattern holds of the
\* field it matches from position 0 on.
StringCriterionHolds(x, field) ==
    IF x.kind = "str" THEN field = x.value ELSE MatchesAt(x.pattern, field, 0)

StringCriteria == {"domain_code", "page_title", "language", "project"}

\* C11: with one of the four string criteria supplied alone, sift yields
\* exactly the records whose field equals the plain string, or has a match
\* of the compiled pattern starting at position 0 (the match may end before
\* the field does; a match that only starts later does not count).
C11_StringCriterion ==
    \A name \in StringCriteria :
        OnlySet(criteria, name) =>
            sift_out = SelectSeq(SubSeq(stream, 1, sift_pos),
                                 LAMBDA pv : StringCriterionHolds(criteria[name], pv[name]))

C11_Witness ==
    /\ OnlySet(criteria, "language")
    /\ criteria.language = Pattern(<<"n">>)
    /\ sift_pos = Len(stream)
    /\ Len(stream) = 2
    /\ stream[1].language = EN
    /\ \E k \in 1..Len(EN) : MatchesAt(criteria.language.pattern, stream[1].language, k)
    /\ stream[2].language = NO
    /\ sift_out = <<stream[2]>>

\* C12: with only min_views and max_views supplied (one or both), sift
\* yields exactly the records with count_views >= min_views, when that is
\* supplied, and count_views <= max_views, when that is supplied; with 10
\* and 19, the records with count_views in 10..19.
C12_ViewRange ==
    (/\ IsSet(criteria.min_views) \/ IsSet(criteria.max_views)
     /\ criteria = [NoCriteria EXCEPT !.min_views = criteria.min_views,
                                      !.max_views = criteria.max_views])
        => /\ sift_out = SelectSeq(
                  SubSeq(stream, 1, sift_pos),
                  LAMBDA pv :
                      /\ IsSet(criteria.min_views)
                             => pv.count_views >= criteria.min_views.value
                      /\ IsSet(criteria.max_views)
                             => pv.count_views <= criteria.max_views.value)
           /\ (criteria.min_views = Integer(10) /\ criteria.max_views = Integer(19))
                  => sift_out = SelectSeq(SubSeq(stream, 1, sift_pos),
                                          LAMBDA pv : pv.count_views \in 10..19)

C12_Witness ==
    /\ criteria = [NoCriteria EXCEPT !.min_views = Integer(10),
                                     !.max_views = Integer(19)]
    /\ sift_pos = Len(stream)
    /\ Len(stream) = 2
    /\ stream[1].count_views = 19
    /\ stream[2].count_views = 5
    /\ sift_out = <<stream[1]>>

----------------------------------------------------------------------------
(* Specification SpecTwice: sift applied to the output of sift *)

SiftArguments ==
    {"domain_code", "page_title", "min_views", "max_views", "language",
     "project", "mobile"}

\* One value for each argument of sift.
SiftValues ==
    [domain_code |-> Pattern(EN), page_title |-> Str(MAIN),
     min_views |-> Integer(10), max_views |-> Integer(19),
     language |-> Pattern(<<"n">>), project |-> Str(WIKIPEDIA_ORG),
     mobile |-> Bool(FALSE)]

\* The arguments in `names` supplied, the others left out.
Supplying(names) ==
    [a \in SiftArguments |-> IF a \in names THEN SiftValues[a] ELSE None]

\* Two criteria sets that supply no argument in common, or the same
\* criteria set twice.
CriteriaPairs ==
    { <<Supplying({a \in SiftArguments : owner[a] = "first"}),
        Supplying({a \in SiftArguments : owner[a] = "second"})>> :
          owner \in [SiftArguments -> {"none", "first", "second"}] }
    \cup { <<Supplying(names), Supplying(names)>> : names \in SUBSET SiftArguments }

InitTwice ==
    /\ stream \in UNION { [1..n -> SiftRecords] : n \in 0..MaxStream }
    /\ \E pair \in CriteriaPairs : criteria = pair[1] /\ criteria_b = pair[2]
    /\ sift_pos = 0
    /\ sift_out = <<>>
    /\ once = Pending
    /\ twice = Pending
    /\ merged = Pending
    /\ IdleDecode /\ IdleLine /\ IdleParse /\ IdlePipe /\ IdlePre /\ IdleCache

ReturnedRecords(records) == [status |-> "returned", records |-> records]

\* No argument is supplied in both criteria sets.
Disjoint(a, b) == \A name \in SiftArguments : ~(IsSet(a[name]) /\ IsSet(b[name]))

\* The arguments of both criteria sets in one call.
Together(a, b) ==
    [name \in SiftArguments |-> IF IsSet(a[name]) THEN a[name] ELSE b[name]]

\* once = list(sift(stream, **criteria))
SiftOnce ==
    /\ once = Pending
    /\ once' = ReturnedRecords(sift(stream, criteria))
    /\ UNCHANGED <<criteria_b, twice, merged, decodeVars, lineVars, parseVars,
                   siftVars, pipeVars, preVars, cacheVars>>

\* twice = list(sift(once, **criteria_b))
SiftTwice ==
    /\ once # Pending
    /\ twice = Pending
    /\ twice' = ReturnedRecords(sift(once.records, criteria_b))
    /\ UNCHANGED <<criteria_b, once, merged, decodeVars, lineVars, parseVars,
                   siftVars, pipeVars, preVars, cacheVars>>

\* merged = list(sift(stream, **criteria, **criteria_b))
SiftMerged ==
    /\ twice # Pending
    /\ merged = Pending
    /\ Disjoint(criteria, criteria_b)
    /\ merged' = ReturnedRecords(sift(stream, Together(criteria, criteria_b)))
    /\ UNCHANGED <<criteria_b, once, twice, decodeVars, lineVars, parseVars,
                   siftVars, pipeVars, preVars, cacheVars>>

NextTwice ==
    \/ SiftOnce
    \/ SiftTwice
    \/ SiftMerged

SpecTwice == InitTwice /\ [][NextTwice]_vars

----------------------------------------------------------------------------
(* Properties of sift applied twice, checked under SpecTwice *)

\* C13: for criteria sets A and B that supply no argument in common,
\* sift(sift(x, A), B) yields the same sequence as sift(x, A and B
\* together), and so does sift(sift(x, B), A).
C13_SiftComposes ==
    merged # Pending =>
        /\ twice.records = merged.records
        /\ sift(sift(stream, criteria_b), criteria) = merged.records

C13_Witness ==
    /\ merged # Pending
    /\ IsSet(criteria.page_title)
    /\ IsSet(criteria_b.mobile)
    /\ Len(stream) = 2
    /\ once.records = stream
    /\ Len(twice.records) = 1
    /\ merged.records = twice.records

\* C14: sift(sift(x, C), C) yields the same sequence as sift(x, C).
C14_SiftIdempotent ==
    (twice # Pending /\ criteria_b = criteria) => twice.records = once.records

C14_Witness ==
    /\ twice # Pending
    /\ criteria_b = criteria
    /\ criteria # NoCriteria
    /\ Len(stream) = 2
    /\ Len(once.records) = 1
    /\ twice.records = once.records

----------------------------------------------------------------------------
(* Specification SpecPipe: sift(parse(stream), ...) as pvcreek composes    *)
(* them, driven by its consumer.  The generator parse is the one of        *)
(* SpecParse; here the generator sift is the one that resumes it.          *)

\* No criterion, one that drops LINE_KO and one that drops LINE_EN_D.
PipeCriteria ==
    {NoCriteria,
     [NoCriteria EXCEPT !.language = Str(EN)],
     [NoCriteria EXCEPT !.min_views = Integer(2)]}

InitPipe ==
    /\ lines \in UNION { [1..n -> StreamLines] : n \in 0..MaxLines }
    /\ consumed = 0
    /\ gen = "created"
    /\ held = <<>>
    /\ yielded = <<>>
    /\ outcome = Pending
    /\ stream = <<>>
    /\ criteria \in PipeCriteria
    /\ sift_pos = 0
    /\ sift_out = <<>>
    /\ sift_gen = "created"
    /\ got = Pending
    /\ IdleDecode /\ IdleLine /\ IdleTwice /\ IdlePre /\ IdleCache

\* The consumer calls next() on sift: its body runs up to the for
\* statement's request for the next record.
PipeNext ==
    /\ sift_gen \in {"created", "suspended"}
    /\ sift_gen' = "pulling"
    /\ got' = Pending
    /\ UNCHANGED <<decodeVars, lineVars, parseVars, siftVars, twiceVars, preVars, cacheVars>>

\* for pageviews in stream: sift calls next() on parse and waits for it.
PipePull ==
    /\ sift_gen = "pulling"
    /\ gen \in {"created", "suspended"}
    /\ gen' = "iterating"
    /\ outcome' = Pending
    /\ sift_gen' = "waiting"
    /\ UNCHANGED <<lines, consumed, held, yielded, got, decodeVars, lineVars,
                   siftVars, twiceVars, preVars, cacheVars>>

\* A sift that resumes parse for the record after the one it yields.
PipePass_ahead ==
    /\ sift_gen = "waiting"
    /\ gen = "suspended"
    /\ sift_passes(criteria, outcome.pageviews)
    /\ sift_pos' = sift_pos + 1
    /\ sift_out' = Append(sift_out, outcome.pageviews)
    /\ got' = outcome
    /\ sift_gen' = "suspended"
    /\ gen' = "iterating"
    /\ UNCHANGED <<lines, consumed, held, yielded, outcome, stream, criteria,
                   decodeVars, lineVars, twiceVars, preVars, cacheVars>>

\* parse has yielded a record and the condition holds of it: yield pageviews.
PipePass ==
    /\ sift_gen = "waiting"
    /\ gen = "suspended"
    /\ sift_passes(criteria, outcome.pageviews)
    /\ sift_pos' = sift_pos + 1
    /\ sift_out' = Append(sift_out, outcome.pageviews)
    /\ got' = outcome
    /\ sift_gen' = "suspended"
    /\ UNCHANGED <<stream, criteria, decodeVars, lineVars, parseVars, twiceVars, preVars, cacheVars>>

\* parse has yielded a record and the condition fails: on to the next one.
PipeFail ==
    /\ sift_gen = "waiting"
    /\ gen = "suspended"
    /\ ~sift_passes(criteria, outcome.pageviews)
    /\ sift_pos' = sift_pos + 1
    /\ sift_gen' = "pulling"
    /\ UNCHANGED <<stream, criteria, sift_out, got, decodeVars, lineVars,
                   parseVars, twiceVars, preVars, cacheVars>>

\* parse has ended: by exhaustion, which ends the for loop and sift with it,
\* or by an exception of parse_line, which sift does not catch.
PipeEnd ==
    /\ sift_gen = "waiting"
    /\ gen = "closed"
    /\ sift_gen' = "closed"
    /\ got' = outcome
    /\ UNCHANGED <<decodeVars, lineVars, parseVars, siftVars, twiceVars, preVars, cacheVars>>

\* The consumer calls next() on the ended sift.
PipeNextClosed ==
    /\ sift_gen = "closed"
    /\ got' = StopIteration
    /\ UNCHANGED <<sift_gen, decodeVars, lineVars, parseVars, siftVars, twiceVars, preVars, cacheVars>>

NextPipe ==
    \/ PipeNext
    \/ PipePull
    \/ StreamNext
    \/ StreamStop
    \/ Yield
    \/ RaiseOut
    \/ PipePass
    \/ PipeFail
    \/ PipeEnd
    \/ PipeNextClosed

SpecPipe == InitPipe /\ [][NextPipe]_vars

----------------------------------------------------------------------------
(* Properties of the pipeline, checked under SpecPipe *)

\* C15: parse takes a line from the source only while sift waits for a
\* record, and sift runs only while the consumer waits for one; no stage
\* holds more than the one item it is working on; when the consumer gets a
\* record, the lines taken from the source are those up to and including
\* the line of that record; when the source is exhausted every stage ends
\* with every item it took handed on or dropped.
C15_PullBased ==
    /\ gen \in {"iterating", "parsing"} => sift_gen = "waiting"
    /\ sift_gen \in {"pulling", "waiting"} => got = Pending
    /\ Len(yielded) <= consumed /\ consumed <= Len(yielded) + 1
    /\ sift_pos <= Len(yielded) /\ Len(yielded) <= sift_pos + 1
    /\ sift_gen = "suspended" =>
           /\ consumed = Len(yielded)
           /\ sift_pos = Len(yielded)
           /\ got = parse_line(lines[consumed])
           /\ sift_out[Len(sift_out)] = got.pageviews
    /\ (sift_gen = "closed" /\ GoodPrefix(lines) = Len(lines)) =>
           /\ consumed = Len(lines)
           /\ Len(yielded) = Len(lines)
           /\ sift_pos = Len(lines)
           /\ got = StopIteration
           /\ sift_out = SelectSeq(yielded, LAMBDA pv : sift_passes(criteria, pv))

C15_Witness ==
    /\ Len(lines) = 3
    /\ sift_gen = "suspended"
    /\ consumed = 2
    /\ sift_pos = 2
    /\ sift_out = <<yielded[2]>>
    /\ got = ReturnedPageviews(yielded[2])

----------------------------------------------------------------------------
(* pre_filter: the filter over raw lines, ahead of parse *)

Callable(name) == [kind |-> "callable", name |-> name]

\* A caller's predicate over the line, applied to it.
Call(f, l) ==
    CASE f.name = "long" -> Len(l) > 11
      [] f.name = "ends_in_0" -> l # <<>> /\ l[Len(l)] = "0"

\* line.startswith(prefix)
str_startswith(l, prefix) ==
    Len(prefix) <= Len(l) /\ SubSeq(l, 1, Len(prefix)) = prefix

\* substring in line
str_contains(l, substring) ==
    \E k \in 0..(Len(l) - Len(substring)) :
        SubSeq(l, k + 1, k + Len(substring)) = substring

NoPredicates ==
    [startswith |-> None, contains |-> None, regex |-> None, custom_filter |-> None]

\* A pre_filter that lets a line pass when one supplied predicate holds.
pre_filter_passes_any(p, l) ==
    \/ p = NoPredicates
    \/ p.startswith.kind # "None" /\ str_startswith(l, p.startswith.value)
    \/ p.contains.kind # "None" /\ str_contains(l, p.contains.value)
    \/ p.regex.kind # "None" /\ re_search(p.regex.pattern, l)
    \/ p.custom_filter.kind # "None" /\ Call(p.custom_filter, l)

\* Every supplied predicate holds of the line.
pre_filter_passes(p, l) ==
    /\ p.startswith.kind # "None" => str_startswith(l, p.startswith.value)
    /\ p.contains.kind # "None" => str_contains(l, p.contains.value)
    /\ p.regex.kind # "None" => re_search(p.regex.pattern, l)
    /\ p.custom_filter.kind # "None" => Call(p.custom_filter, l)

----------------------------------------------------------------------------
(* Specification SpecPre: parse(pre_filter(stream, ...)), driven by the    *)
(* consumer of parse.  The generator parse is the one of SpecParse, with   *)
(* pre_filter in the place of the stream.                                  *)

PreCriteria ==
    [startswith : {None, Str(<<"e", "n", ".", "d", " ">>), Str(<<"a", ".", "b", ".", "c", ".", "d", " ">>)},
     contains : {None, Str(<<"c", "a", "t">>), Str(<<"o", " ", "d">>)},
     regex : {None, Pattern(<<"n", ".", "d">>), Pattern(<<"g", ".", "2">>)},
     custom_filter : {None, Callable("long"), Callable("ends_in_0")}]

InitPre ==
    /\ lines \in UNION { [1..n -> StreamLines] : n \in 0..MaxLines }
    /\ pre \in PreCriteria
    /\ consumed = 0
    /\ gen = "created"
    /\ held = <<>>
    /\ yielded = <<>>
    /\ outcome = Pending
    /\ passed = <<>>
    /\ IdleDecode /\ IdleLine /\ IdleSift /\ IdleTwice /\ IdlePipe /\ IdleCache

\* for line in stream: a supplied predicate fails, on to the next line.
PreDrop ==
    /\ gen = "iterating"
    /\ consumed < Len(lines)
    /\ ~pre_filter_passes(pre, lines[consumed + 1])
    /\ consumed' = consumed + 1
    /\ UNCHANGED <<lines, gen, held, yielded, outcome, pre, passed, decodeVars,
                   lineVars, siftVars, twiceVars, pipeVars, cacheVars>>

\* for line in stream: every supplied predicate holds, yield line; parse's
\* for statement takes it.
PreYield ==
    /\ gen = "iterating"
    /\ consumed < Len(lines)
    /\ pre_filter_passes(pre, lines[consumed + 1])
    /\ consumed' = consumed + 1
    /\ passed' = Append(passed, lines[consumed + 1])
    /\ held' = lines[consumed + 1]
    /\ gen' = "parsing"
    /\ UNCHANGED <<lines, yielded, outcome, pre, decodeVars, lineVars, siftVars,
                   twiceVars, pipeVars, cacheVars>>

NextPre ==
    \/ Resume
    \/ PreDrop
    \/ PreYield
    \/ StreamStop
    \/ Yield
    \/ RaiseOut
    \/ ResumeClosed

SpecPre == InitPre /\ [][NextPre]_vars

----------------------------------------------------------------------------
(* Properties of pre_filter, checked under SpecPre *)

\* The characters of l that follow the first `start` ones begin with s.
OccursAt(s, l, start) ==
    /\ start + Len(s) <= Len(l)
    /\ \A i \in 1..Len(s) : l[start + i] = s[i]

\* Each supplied predicate holds of the line: the prefix is at position 0,
\* the substring somewhere, the pattern has a match starting somewhere, and
\* the caller's predicate is true.
HoldsAllSupplied(p, l) ==
    /\ p.startswith.kind = "None" \/ OccursAt(p.startswith.value, l, 0)
    /\ p.contains.kind = "None" \/ \E k \in 0..Len(l) : OccursAt(p.contains.value, l, k)
    /\ p.regex.kind = "None" \/ \E k \in 0..Len(l) : MatchesAt(p.regex.pattern, l, k)
    /\ p.custom_filter.kind = "None" \/ Call(p.custom_filter, l)

\* C16: the lines pre_filter has let pass are, in order and unchanged, the
\* lines taken from the stream of which every supplied predicate holds;
\* with no predicate supplied they are all the lines taken; parse sees the
\* passing lines only: its k-th record is parse_line of the k-th passing
\* line, and an error of parse_line is that of the last passing line.
C16_PreFilter ==
    /\ passed = SelectSeq(SubSeq(lines, 1, consumed),
                          LAMBDA l : HoldsAllSupplied(pre, l))
    /\ pre = NoPredicates => passed = SubSeq(lines, 1, consumed)
    /\ Len(yielded) <= Len(passed)
    /\ \A k \in 1..Len(yielded) : parse_line(passed[k]) = ReturnedPageviews(yielded[k])
    /\ (gen = "closed" /\ outcome # StopIteration /\ outcome # Pending) =>
           (passed # <<>> /\ outcome = parse_line(passed[Len(passed)]))
    /\ gen = "parsing" => (passed # <<>> /\ held = passed[Len(passed)])

\* A line parse_line raises on is dropped ahead of parse, and the line after
\* it is parsed.
C16_Witness ==
    /\ lines = <<LINE_EN_D, LINE_BAD_CODE, LINE_KO>>
    /\ pre.custom_filter = Callable("ends_in_0")
    /\ pre.regex = Pattern(<<"g", ".", "2">>)
    /\ pre.startswith = None
    /\ consumed = 3
    /\ passed = <<LINE_KO>>
    /\ Len(yielded) = 1
    /\ gen = "closed"

----------------------------------------------------------------------------
(* stream.py *)

MaxFetches == 2

BASE_URL == <<"h", "t", "t", "p", "s", ":", "/", "/", "d", "u", "m", "p", "s", ".", "w", "i", "k", "i", "m", "e", "d", "i", "a", ".", "o", "r", "g", "/", "o", "t", "h", "e", "r", "/", "p", "a", "g", "e", "v", "i", "e", "w", "s", "/">>

\* datetime(year, month, day, hour, minute)
Datetime(year, month, day, hour, minute) ==
    [kind |-> "datetime", year |-> year, month |-> month, day |-> day,
     hour |-> hour, minute |-> minute]

\* Path(dir), and target_dir / filename
Dir(dir) == [kind |-> "Path", dir |-> dir]
Join(target_dir, name) == [kind |-> "Path", dir |-> target_dir.dir, name |-> name]

DigitChar(d) == CHOOSE c \in DOMAIN DigitValue : DigitValue[c] = d

\* f"{n:0{width}d}", which %Y, %m, %d and %H are for the years 1000 to 9999.
RECURSIVE zero_padded(_, _)
zero_padded(n, width) ==
    IF n < 10 /\ width <= 1 THEN <<DigitChar(n)>>
    ELSE zero_padded(n \div 10, width - 1) \o <<DigitChar(n % 10)>>

filename_from_timestamp(timestamp) ==
    <<"p", "a", "g", "e", "v", "i", "e", "w", "s", "-">> \o zero_padded(timestamp.year, 4) \o zero_padded(timestamp.month, 2)
    \o zero_padded(timestamp.day, 2) \o <<"-">> \o zero_padded(timestamp.hour, 2)
    \o <<"0", "0", "0", "0", ".", "g", "z">>

\* FILENAME.match(filename): None, or the match with its two groups.  $ also
\* matches ahead of a newline that ends the string.
FILENAME_match(filename) ==
    LET body == IF filename # <<>> /\ filename[Len(filename)] = "\n"
                THEN SubSeq(filename, 1, Len(filename) - 1) ELSE filename
    IN  IF /\ Len(body) = 28
           /\ SubSeq(body, 1, 10) = <<"p", "a", "g", "e", "v", "i", "e", "w", "s", "-">>
           /\ \A i \in 11..18 : body[i] \in DOMAIN DigitValue
           /\ body[19] = "-"
           /\ \A i \in 20..21 : body[i] \in DOMAIN DigitValue
           /\ SubSeq(body, 22, 28) = <<"0", "0", "0", "0", ".", "g", "z">>
        THEN [kind |-> "Match", year |-> SubSeq(body, 11, 14),
              month |-> SubSeq(body, 15, 16)]
        ELSE None

\* The url, ValueError for a str that is no pageviews filename, TypeError
\* (raised by re.Pattern.match) for an argument that is no str.
url_from_filename(base_url, filename) ==
    LET base == IF base_url # <<>> /\ base_url[Len(base_url)] = "/"
                THEN base_url ELSE base_url \o <<"/">>
    IN  IF filename.kind # "str" THEN Raise("TypeError", "url_from_filename")
        ELSE LET match == FILENAME_match(filename.value)
             IN  IF match.kind = "Match"
                 THEN [status |-> "returned",
                       value |-> base \o match.year \o <<"/">> \o match.year
                                 \o <<"-">> \o match.month \o <<"/">>
                                 \o filename.value]
                 ELSE Raise("ValueError", "url_from_filename")

\* target.exists(), in the file system fs
exists(fs, target) == target \in DOMAIN fs

is_cached(fs, filename, target_dir) ==
    LET name == IF filename.kind = "datetime"
                THEN filename_from_timestamp(filename) ELSE filename.value
    IN  exists(fs, Join(target_dir, name))

ReturnedPath(target) == [status |-> "returned", path |-> target]

\* What the server and the transfer do when a request is made.
NetOutcomes == {"ok", "http_error", "body_error"}

\* A download that does not look into the cache.
download_always_fetches(fs, filename, target_dir, base_url, net) ==
    LET name == IF filename.kind = "datetime"
                THEN Str(filename_from_timestamp(filename)) ELSE filename
        url == url_from_filename(base_url, name)
        target == Join(target_dir, name.value)
    IN  IF url.status = "raised"
        THEN [result |-> url, files |-> fs, mkdir |-> FALSE, fetched |-> FALSE]
        ELSE CASE net = "ok" ->
                      [result |-> ReturnedPath(target),
                       files |-> (target :> "complete") @@ fs,
                       mkdir |-> TRUE, fetched |-> TRUE]
               [] net = "http_error" ->
                      [result |-> Raise("HTTPError", "raise_for_status"),
                       files |-> fs, mkdir |-> TRUE, fetched |-> TRUE]
               [] net = "body_error" ->
                      [result |-> Raise("ChunkedEncodingError", "iter_content"),
                       files |-> (target :> "partial") @@ fs,
                       mkdir |-> TRUE, fetched |-> TRUE]

\* download: its result, the file system it leaves, whether it got to
\* mkdir, whether it made a request.  The request ends well, or
\* raise_for_status raises before the target is opened, or the body breaks
\* off once the target was opened for writing.
download(fs, filename, target_dir, base_url, net) ==
    LET name == IF filename.kind = "datetime"
                THEN Str(filename_from_timestamp(filename)) ELSE filename
        url == url_from_filename(base_url, name)
        target == Join(target_dir, name.value)
    IN  IF url.status = "raised"
        THEN [result |-> url, files |-> fs, mkdir |-> FALSE, fetched |-> FALSE]
        ELSE IF ~is_cached(fs, name, target_dir)
        THEN CASE net = "ok" ->
                      [result |-> ReturnedPath(target),
                       files |-> (target :> "complete") @@ fs,
                       mkdir |-> TRUE, fetched |-> TRUE]
               [] net = "http_error" ->
                      [result |-> Raise("HTTPError", "raise_for_status"),
                       files |-> fs, mkdir |-> TRUE, fetched |-> TRUE]
               [] net = "body_error" ->
                      [result |-> Raise("ChunkedEncodingError", "iter_content"),
                       files |-> (target :> "partial") @@ fs,
                       mkdir |-> TRUE, fetched |-> TRUE]
        ELSE [result |-> ReturnedPath(target), files |-> fs, mkdir |-> TRUE,
              fetched |-> FALSE]

\* The lines of a local file, as far as the file goes.
stream_local(fs, file) ==
    IF exists(fs, file)
    THEN [status |-> "returned", source |-> "local", path |-> file,
          content |-> fs[file]]
    ELSE Raise("FileNotFoundError", "gzip.open")

\* The lines of the remote file, read as they arrive.
stream_remote(fs, file, base_url, net) ==
    LET name == IF file.kind = "datetime"
                THEN Str(filename_from_timestamp(file)) ELSE file
        url == url_from_filename(base_url, name)
    IN  IF url.status = "raised"
        THEN [result |-> url, files |-> fs, mkdir |-> FALSE, fetched |-> FALSE]
        ELSE [result |-> CASE net = "ok" ->
                                  [status |-> "returned", source |-> "remote",
                                   url |-> url.value, content |-> "complete"]
                           [] net = "http_error" ->
                                  Raise("HTTPError", "raise_for_status")
                           [] net = "body_error" ->
                                  [status |-> "returned", source |-> "remote",
                                   url |-> url.value, content |-> "partial"],
              files |-> fs, mkdir |-> FALSE, fetched |-> TRUE]

stream_by_type(fs, file, base_url, net) ==
    IF file.kind \in {"str", "datetime"} THEN stream_remote(fs, file, base_url, net)
    ELSE IF file.kind = "Path"
    THEN [result |-> stream_local(fs, file), files |-> fs, mkdir |-> FALSE,
          fetched |-> FALSE]
    ELSE [result |-> Raise("TypeError", "stream"), files |-> fs, mkdir |-> FALSE,
          fetched |-> FALSE]

----------------------------------------------------------------------------
(* __init__.py: pvcreek, up to the choice of its stream *)

pvcreek(fs, filename, base_url, cache_path, net) ==
    IF cache_path.kind # "None"
    THEN LET d == download(fs, filename, cache_path, base_url, net)
         IN  IF d.result.status = "raised" THEN d
             ELSE [d EXCEPT !.result = stream_local(d.files, d.result.path)]
    ELSE stream_remote(fs, filename, base_url, net)

----------------------------------------------------------------------------
(* Specification SpecCache: calls of is_cached, download, stream and       *)
(* pvcreek, one after the other, on a file system that starts empty.       *)

F06 == <<"p", "a", "g", "e", "v", "i", "e", "w", "s", "-", "2", "0", "2", "4", "0", "8", "0", "3", "-", "0", "6", "0", "0", "0", "0", ".", "g", "z">>
F07 == <<"p", "a", "g", "e", "v", "i", "e", "w", "s", "-", "2", "0", "2", "4", "0", "8", "0", "3", "-", "0", "7", "0", "0", "0", "0", ".", "g", "z">>
NOT_A_FILENAME == <<"p", "a", "g", "e", "v", "i", "e", "w", "s", ".", "g", "z">>
ALT_URL == <<"h", "t", "t", "p", ":", "/", "/", "h">>

FileNames == {F06, F07}
T0630 == Datetime(2024, 8, 3, 6, 30)
T0700 == Datetime(2024, 8, 3, 7, 0)

\* A file's name, a str that names no file, a timestamp in the hour of the
\* first file and one in the hour of the other.
Filenames == {Str(F06), Str(NOT_A_FILENAME), T0630, T0700}
Dirs == {Dir("cache_a"), Dir("cache_b")}
LocalPaths == {Join(Dir("cache_a"), F06)}
\* What stream() is called with: a str, a datetime, a Path, something else.
StreamedFiles == {Str(F06), T0700} \cup LocalPaths \cup {None}
\* The default base_url, and one that lacks the final slash.
BaseUrls == {BASE_URL, ALT_URL}

\* The file of the hour the timestamp lies in.
InHour(timestamp, name) ==
    /\ timestamp.year = 2024 /\ timestamp.month = 8 /\ timestamp.day = 3
    /\ \/ timestamp.hour = 6 /\ name = F06
       \/ timestamp.hour = 7 /\ name = F07

\* The value names the file: it is its name, or a timestamp in its hour.
Names(filename, name) ==
    \/ filename.kind = "str" /\ filename.value = name
    \/ filename.kind = "datetime" /\ InHour(filename, name)

\* The files in target_dir that the value names (one or none).
Named(filename, target_dir) ==
    {Join(target_dir, name) : name \in {n \in FileNames : Names(filename, n)}}

Called(op, filename, base_url, dir, r) ==
    [op |-> op, filename |-> filename, base_url |-> base_url, dir |-> dir,
     result |-> r.result, fetched |-> r.fetched]

InitCache ==
    /\ files = <<>>
    /\ made = {}
    /\ fetches = 0
    /\ call = NoCall
    /\ attempted = {}
    /\ completed = {}
    /\ IdleDecode /\ IdleLine /\ IdleParse /\ IdleSift /\ IdleTwice /\ IdlePipe /\ IdlePre

IsCached(filename, target_dir) ==
    /\ call' = Called("is_cached", filename, None, target_dir,
                      [result |-> [status |-> "returned",
                                   value |-> is_cached(files, filename, target_dir)],
                       fetched |-> FALSE])
    /\ UNCHANGED <<files, made, fetches, attempted, completed, decodeVars,
                   lineVars, parseVars, siftVars, twiceVars, pipeVars, preVars>>

\* The call's effect on the file system, the request counter and the history.
Effect(r, filename, target_dir) ==
    /\ r.fetched => fetches < MaxFetches
    /\ files' = r.files
    /\ made' = IF r.mkdir THEN made \cup {target_dir} ELSE made
    /\ fetches' = IF r.fetched THEN fetches + 1 ELSE fetches
    /\ attempted' = attempted \cup Named(filename, target_dir)
    /\ completed' = IF r.result.status = "returned"
                    THEN completed \cup Named(filename, target_dir)
                    ELSE completed

Download(filename, target_dir, base_url, net) ==
    \E r \in {download(files, filename, target_dir, base_url, net)} :
        /\ Effect(r, filename, target_dir)
        /\ call' = Called("download", filename, base_url, target_dir, r)
        /\ UNCHANGED <<decodeVars, lineVars, parseVars, siftVars, twiceVars,
                       pipeVars, preVars>>

StreamFile(file, base_url, net) ==
    \E r \in {stream_by_type(files, file, base_url, net)} :
        /\ r.fetched => fetches < MaxFetches
        /\ fetches' = IF r.fetched THEN fetches + 1 ELSE fetches
        /\ call' = Called("stream", file, base_url, None, r)
        /\ UNCHANGED <<files, made, attempted, completed, decodeVars, lineVars,
                       parseVars, siftVars, twiceVars, pipeVars, preVars>>

\* The first next() on the generator pvcreek returns: its body runs to the
\* first line of the stream it chose.
PvcreekCall(filename, base_url, cache_path, net) ==
    \E r \in {pvcreek(files, filename, base_url, cache_path, net)} :
        /\ IF cache_path.kind # "None" /\ filename.kind # "Path"
           THEN Effect(r, filename, cache_path)
           ELSE /\ r.fetched => fetches < MaxFetches
                /\ fetches' = IF r.fetched THEN fetches + 1 ELSE fetches
                /\ files' = r.files
                /\ made' = IF r.mkdir THEN made \cup {cache_path} ELSE made
                /\ UNCHANGED <<attempted, completed>>
        /\ call' = Called("pvcreek", filename, base_url, cache_path, r)
        /\ UNCHANGED <<decodeVars, lineVars, parseVars, siftVars, twiceVars,
                       pipeVars, preVars>>

NextCache ==
    \/ \E filename \in Filenames, target_dir \in Dirs :
           IsCached(filename, target_dir)
    \/ \E filename \in Filenames, target_dir \in Dirs, net \in NetOutcomes :
           Download(filename, target_dir, BASE_URL, net)
    \/ \E file \in StreamedFiles, base_url \in BaseUrls, net \in NetOutcomes :
           StreamFile(file, base_url, net)
    \/ \E filename \in Filenames \cup LocalPaths, net \in NetOutcomes :
           \/ \E base_url \in BaseUrls : PvcreekCall(filename, base_url, None, net)
           \/ PvcreekCall(filename, BASE_URL, Dir("cache_a"), net)

SpecCache == InitCache /\ [][NextCache]_vars

----------------------------------------------------------------------------
(* Properties of the cache, checked under SpecCache *)

\* C17, in every state: a file a download has returned the path of is
\* cached under its name and under every timestamp in its hour; a file no
\* download was asked for is not.
C17_Cached ==
    \A target_dir \in Dirs, name \in FileNames, filename \in Filenames :
        Names(filename, name) =>
            /\ Join(target_dir, name) \in completed =>
                   is_cached(files, filename, target_dir)
            /\ Join(target_dir, name) \notin attempted =>
                   ~is_cached(files, filename, target_dir)

\* C17, in every step: a download of a file that a download has returned
\* the path of before, by name or by timestamp, makes no request, leaves the
\* file system as it is and returns the same path.
C17_NoRefetch ==
    \A target \in completed :
        (/\ call'.op = "download"
         /\ call'.dir.dir = target.dir
         /\ Names(call'.filename, target.name))
        => /\ fetches' = fetches
           /\ files' = files
           /\ ~call'.fetched
           /\ call'.result = ReturnedPath(target)

\* C17: download-once.
C17_DownloadOnce == []C17_Cached /\ [][C17_NoRefetch]_vars

\* The file was fetched once, by name; a download by a timestamp in its
\* hour returns its path without a request.
C17_Witness ==
    /\ call.op = "download"
    /\ call.filename = T0630
    /\ call.dir = Dir("cache_b")
    /\ ~call.fetched
    /\ call.result = ReturnedPath(Join(Dir("cache_b"), F06))
    /\ fetches = 1
    /\ completed = {Join(Dir("cache_b"), F06)}
    /\ files[Join(Dir("cache_b"), F06)] = "complete"

\* C18: pvcreek with a str or a datetime streams the file the server at
\* base_url has, at once or through the cache; with a Path it streams the
\* local file, when there is one, and makes no request.
C18_SourceByType ==
    call.op = "pvcreek" =>
        /\ (call.filename.kind \in {"str", "datetime"}
            /\ call.result.status = "returned") =>
               \/ call.result.source = "remote"
               \/ call.result.source = "local" /\ call.dir # None
        /\ call.filename.kind = "Path" =>
               /\ ~call.fetched
               /\ exists(files, call.filename) =>
                      /\ call.result.status = "returned"
                      /\ call.result.source = "local"
                      /\ call.result.path = call.filename

\* C19: a file that is cached, under its name or a timestamp in its hour,
\* is a complete copy.
C19_CachedIsComplete ==
    \A target_dir \in Dirs, name \in FileNames, filename \in Filenames :
        (Names(filename, name) /\ is_cached(files, filename, target_dir))
        => (/\ exists(files, Join(target_dir, name))
            /\ files[Join(target_dir, name)] = "complete")

====
